---- MODULE Spec2Model ----
(***************************************************************************)
(* Signal fusion and environmental state controller of the emotion         *)
(* visualiser.  The repository holds several variants of the App           *)
(* component; two of them are modelled here:                               *)
(*                                                                         *)
(*   - src/App.tsx   : face tracking with smoothing and emotion debounce,  *)
(*                     audio analysis with music playback rate             *)
(*                     (specifications Spec, SpecCalm, SpecAudio);         *)
(*   - src/types.ts  : hand + face tracking and the generative wind audio  *)
(*                     loop (specification SpecTracking).                  *)
(*                                                                         *)
(* Numbers.  The program computes with IEEE doubles.  Finite values are    *)
(* modelled in fixed point: the integer v stands for v / Unit, products    *)
(* and quotients are truncated toward zero.  Division by zero, which the   *)
(* src/types.ts variant performs, yields the IEEE results NaN and          *)
(* +/-Infinity; these are modelled explicitly as tagged values.            *)
(***************************************************************************)
EXTENDS Integers, Sequences, FiniteSets, TLC

VARIABLES
    status,           \* React state `status` (AppStatus)
    statusRef,        \* statusRef.current
    error,            \* React state `error`
    pc,               \* position of the asynchronous handleStart
    audioReady,       \* audioContextRef.current and analyserRef.current are set
    audioElement,     \* audioElementRef.current is set (music playing)
    playbackRate,     \* audioElementRef.current.playbackRate
    faceMeshReady,    \* faceMeshRef.current is set (and handsRef in src/types.ts)
    cameraOn,         \* camera.start() was called: onFrame is being invoked
    inflight,         \* tracker that holds the frame sent by onFrame
    systemState,      \* systemStateRef.current
    smoothMouth,      \* smoothMouthRef.current
    smoothCurvature,  \* smoothCurvatureRef.current
    emotionTimer,     \* emotionTimerRef.current
    stableEmotion,    \* stableEmotionRef.current
    log,              \* history: one record per face the face handler processed
    lastResult,       \* history: kind of the last result of each tracker
    lastHand,         \* history: the last hand landmarks the hand handler processed
    ticks,            \* history: number of audio ticks executed
    lastTick,         \* history: snapshot and locals of the last audio tick
    intervals,        \* the setInterval timers that are active (audio loop, UI sync)
    uiState,          \* React state `uiState`: the object the Overlay is handed,
                      \* the shared record itself or a copy of it
    canvas,           \* VisualizerCanvas: its refs, uniforms and animation frame
    failed            \* history: collaborators that failed in the start being run,
                      \* kept until the effects of its outcome have run

vars == <<status, statusRef, error, pc, audioReady, audioElement, playbackRate,
          faceMeshReady, cameraOn, inflight, systemState, smoothMouth,
          smoothCurvature, emotionTimer, stableEmotion, log, lastResult, lastHand, ticks, lastTick,
          intervals, uiState, canvas, failed>>

startVars == <<status, error, pc, audioReady, audioElement, faceMeshReady, cameraOn>>
faceVars  == <<smoothMouth, smoothCurvature, emotionTimer, stableEmotion>>

-----------------------------------------------------------------------------
(* Bounds of the model *)

MaxFrames == 6       \* faces the src/App.tsx handler processes in one behaviour
CalmFrames == 10     \* face frames of the curvature-0 scenario
TrackFrames == 3     \* faces the src/types.ts handler processes in one behaviour
MaxTicks == 3        \* audio ticks in one behaviour
NumBins == 3         \* frequency bins of the modelled analyser snapshot

-----------------------------------------------------------------------------
(* Fixed-point arithmetic *)

\* the fixed-point scale: the integer v stands for the number v / Unit
Unit == 100 * 100

TruncDiv(a, b) == IF a >= 0 THEN a \div b ELSE -((-a) \div b)

\* x * (num/den), e.g. x * 0.15 == Scale(x, 15, 100)
Scale(x, num, den) == TruncDiv(x * num, den)

Min(a, b) == IF a < b THEN a ELSE b
Max(a, b) == IF a > b THEN a ELSE b

RECURSIVE SqrtSearch(_, _, _)
SqrtSearch(n, lo, hi) ==
    IF lo >= hi THEN lo
    ELSE LET mid == (lo + hi + 1) \div 2
         IN IF mid * mid <= n THEN SqrtSearch(n, mid, hi)
                              ELSE SqrtSearch(n, lo, mid - 1)

\* Math.hypot on fixed-point operands (floor of the root)
Hypot(dx, dy) == SqrtSearch(dx * dx + dy * dy, 0, 2 * Unit)

-----------------------------------------------------------------------------
(* Enumerations (src/unnamed/part_000) *)

Emotion == {"HAPPY", "CALM", "SAD"}

AppStatus == {"IDLE", "LOADING", "READY", "RUNNING", "PAUSED", "ERROR"}

-----------------------------------------------------------------------------
(* Tracker inputs.  A landmark is a point of the unit square in fixed      *)
(* point; a face is the four mouth landmarks the handlers read (61, 291,   *)
(* 13, 14).  A tracking result carries zero or one face.                   *)

Pt(px, py) == [x |-> px, y |-> py]

Face(l, r, t, b) == [left |-> l, right |-> r, top |-> t, bottom |-> b]

\* lips nearly closed, corners level with the lip centre: curvature 0
Neutral == Face(Pt(4000, 5000), Pt(6000, 5000), Pt(5000, 4900), Pt(5000, 5100))
\* corners above the lip centre by 0.04, width 0.2: curvature -0.4
Smile == Face(Pt(4000, 4600), Pt(6000, 4600), Pt(5000, 4900), Pt(5000, 5100))
\* narrow mouth, corners far below the lip centre: curvature +4
Frown == Face(Pt(4500, 7000), Pt(5500, 7000), Pt(5000, 4900), Pt(5000, 5100))
\* both corners on one point, 0.02 below the lip centre: mouth width 0
ZeroWidth == Face(Pt(5000, 5200), Pt(5000, 5200), Pt(5000, 4900), Pt(5000, 5100))
\* both corners on one point at the height of the lip centre
ZeroWidthLevel == Face(Pt(5000, 5000), Pt(5000, 5000), Pt(5000, 4900), Pt(5000, 5100))
\* narrow mouth, corners above the lip centre by 0.05, width 0.1: one reading
\* makes the src/types.ts handler report HAPPY
Grin == Face(Pt(4500, 4500), Pt(5500, 4500), Pt(5000, 4900), Pt(5000, 5100))
\* mouth twice as high as wide, corners level with the lip centre
WideOpen == Face(Pt(4000, 5000), Pt(6000, 5000), Pt(5000, 3000), Pt(5000, 7000))

Faces == {Smile, Frown, ZeroWidth, WideOpen}

\* the faces of the scenario "raw curvature held at 0"
CalmFaces == {Neutral, ZeroWidthLevel, WideOpen}

NoFace == <<>>

-----------------------------------------------------------------------------
(* src/App.tsx: faceMesh.onResults, the pure steps *)

\* line 73: Math.hypot(right.x - left.x, right.y - left.y)
MouthW(f) == Hypot(f.right.x - f.left.x, f.right.y - f.left.y)

\* line 74: Math.hypot(bottom.x - top.x, bottom.y - top.y)
MouthH(f) == Hypot(f.bottom.x - f.top.x, f.bottom.y - f.top.y)

\* line 75: mouthW > 0 ? mouthH / mouthW : 0
RawRatio(f) ==
    IF MouthW(f) > 0 THEN TruncDiv(MouthH(f) * Unit, MouthW(f)) ELSE 0

\* lines 80-87: (cornersY - centerY) / (mouthW * 0.5 || 1)
\* (twice the numerator over mouthW; over 1 when mouthW * 0.5 is 0)
RawCurvature(f) ==
    LET twiceCenterY == f.top.y + f.bottom.y
        twiceCornersY == f.left.y + f.right.y
        twiceDiff == twiceCornersY - twiceCenterY
    IN IF MouthW(f) # 0
          THEN TruncDiv(twiceDiff * Unit, MouthW(f))
          ELSE TruncDiv(twiceDiff, 2)

\* mutant: half of the gap is closed on every frame
SmoothHalf(smoothed, raw) == smoothed + Scale(raw - smoothed, 5, 10)

\* lines 90-92: smoothed += (raw - smoothed) * smoothFactor, smoothFactor 0.15
Smooth(smoothed, raw) == smoothed + Scale(raw - smoothed, 15, 100)

HappyBelow == -200    \* curvature < -0.02
SadAbove == 500       \* curvature > 0.05

\* mutant: the sign of the lower threshold is lost (curvature < 0.02)
CandidateSignSlip(curvature) ==
    IF curvature < -HappyBelow THEN "HAPPY"
    ELSE IF curvature > SadAbove THEN "SAD"
    ELSE "CALM"

\* lines 99-112: the emotion candidate of the smoothed curvature
Candidate(curvature) ==
    IF curvature < HappyBelow THEN "HAPPY"
    ELSE IF curvature > SadAbove THEN "SAD"
    ELSE "CALM"

DebounceFrames == 5

\* mutant: the change is confirmed one frame early (>= instead of >)
DebounceEarly(currentEmotion, stable, timer) ==
    IF currentEmotion # stable
       THEN IF timer + 1 >= DebounceFrames
               THEN [stable |-> currentEmotion, timer |-> 0]
               ELSE [stable |-> stable, timer |-> timer + 1]
       ELSE [stable |-> stable, timer |-> 0]

\* mutant: the counter is not reset when the change is confirmed
DebounceKeepsCount(currentEmotion, stable, timer) ==
    IF currentEmotion # stable
       THEN IF timer + 1 > DebounceFrames
               THEN [stable |-> currentEmotion, timer |-> timer + 1]
               ELSE [stable |-> stable, timer |-> timer + 1]
       ELSE [stable |-> stable, timer |-> 0]

\* lines 115-123: the debounce; yields the new stableEmotionRef / emotionTimerRef
Debounce(currentEmotion, stable, timer) ==
    IF currentEmotion # stable
       THEN IF timer + 1 > DebounceFrames
               THEN [stable |-> currentEmotion, timer |-> 0]
               ELSE [stable |-> stable, timer |-> timer + 1]
       ELSE [stable |-> stable, timer |-> 0]

\* mutant: the upper clamp is missing
ClampLowOnly(v) == Max(v, 0)

\* line 126: Math.min(Math.max(v, 0), 1)
Clamp01(v) == Min(Max(v, 0), Unit)

-----------------------------------------------------------------------------
(* src/unnamed/part_002 (lines 1-714): VisualizerCanvas, the scene it      *)
(* constructs.  A colour is its three channels in fixed point.             *)

\* The object held by the React state uiState.  useState(systemStateRef.current)
\* (src/App.tsx line 289, src/types.ts line 342) holds the shared record
\* itself, whose fields the callbacks assign in place;
\* setUiState({ ...systemStateRef.current }) holds a copy of its fields.
SharedObject == [object |-> "systemStateRef.current"]

Copy(state) == [object |-> "copy", fields |-> state]

\* the fields the Overlay reads from its systemState prop when it renders
OverlayState ==
    IF uiState.object = "copy" THEN uiState.fields ELSE systemState

\* THREE.Color(hex): the channels r, g, b given as bytes, scaled to [0,1]
Color(r, g, b) ==
    <<TruncDiv(r * Unit, 255), TruncDiv(g * Unit, 255), TruncDiv(b * Unit, 255)>>

\* lines 211-225, 242, 261, 280-283, 357-363: the refs and uniforms after the
\* scene was built, before the first call of animate (line 688).  `frame`
\* tells whether a call of animate is due, frameId is frameIdRef.current,
\* `skipped` (history) counts the paused ticks since the last rendered one.
CanvasInit ==
    [frame |-> TRUE,
     frameId |-> 0,
     skipped |-> 0,
     isPaused |-> FALSE,
     time |-> 0,
     velocity |-> [x |-> 0, y |-> 0],
     position |-> [x |-> 0, z |-> 0],
     camera |-> [x |-> 0, y |-> 0, z |-> 0],
     windStrength |-> Unit,
     baseColor |-> Color(42, 90, 42),
     tipColor |-> Color(176, 214, 107),
     sunColor |-> Color(255, 170, 51),
     weather |-> [color |-> Color(255, 255, 255),
                  speed |-> 10 * Unit, sway |-> Unit, size |-> 4 * Unit],
     haloColor |-> Color(255, 170, 51),
     haloOpacity |-> 0]

-----------------------------------------------------------------------------
(* src/App.tsx: state after construction *)

Init ==
    /\ status = "IDLE"
    /\ statusRef = "IDLE"
    /\ error = ""
    /\ pc = "idle"
    /\ audioReady = FALSE
    /\ audioElement = FALSE
    /\ playbackRate = Unit
    /\ faceMeshReady = FALSE
    /\ cameraOn = FALSE
    /\ inflight = "none"
    /\ systemState = [emotion |-> "CALM", mouthOpenness |-> 0,
                      soundAmplitude |-> 0, soundFrequency |-> 0]
    /\ smoothMouth = 0
    /\ smoothCurvature = 0
    /\ emotionTimer = 0
    /\ stableEmotion = "CALM"
    /\ log = <<>>
    /\ lastResult = [hand |-> "none", face |-> "none"]
    /\ lastHand = <<>>
    /\ ticks = 0
    /\ lastTick = [dataArray |-> <<>>, amplitude |-> 0, centroid |-> 0, before |-> 0]
    /\ intervals = [audio |-> 0, ui |-> 0]
    /\ uiState = SharedObject
    /\ canvas = CanvasInit
    /\ failed = {}

-----------------------------------------------------------------------------
(* src/App.tsx: the start sequence, pause and the status ref *)

\* the catch block of handleStart (lines 260-264)
StartFailed(message) ==
    /\ error' = message
    /\ status' = "ERROR"
    /\ pc' = "done"

\* lines 230-232; the Overlay offers the start button in IDLE (and READY) only
HandleStart ==
    /\ status \in {"IDLE", "READY"}
    /\ pc = "idle"
    /\ status' = "LOADING"
    /\ error' = ""
    /\ pc' = "initAudio"
    /\ failed' = {}
    /\ UNCHANGED <<intervals, uiState, canvas>>
    /\ UNCHANGED <<statusRef, audioReady, audioElement, playbackRate, faceMeshReady,
                   cameraOn, inflight, systemState, faceVars, log, lastResult, lastHand, ticks, lastTick>>

AudioOutcomes == {"ok", "micDenied", "noContext", "playRejected"}

\* initAudio (lines 140-180) awaited by handleStart (line 235).  A denied
\* microphone is caught and only logged (lines 151-157).
InitAudio(outcome) ==
    /\ pc = "initAudio"
    /\ CASE outcome = "noContext" ->
              /\ StartFailed("Audio context unavailable")
              /\ UNCHANGED <<audioReady, audioElement>>
         [] outcome = "playRejected" ->
              /\ audioReady' = TRUE
              /\ StartFailed("Music playback rejected")
              /\ UNCHANGED audioElement
         [] OTHER ->
              /\ audioReady' = TRUE
              /\ audioElement' = TRUE
              /\ pc' = "initFaceMesh"
              /\ UNCHANGED <<status, error>>
    /\ failed' = IF outcome = "ok" THEN failed ELSE failed \cup {outcome}
    /\ UNCHANGED <<intervals, uiState, canvas>>
    /\ UNCHANGED <<statusRef, playbackRate, faceMeshReady, cameraOn, inflight,
                   systemState, faceVars, log, lastResult, lastHand, ticks, lastTick>>

\* initFaceMesh (lines 39-137) awaited by handleStart (line 236)
InitFaceMesh(libraryLoaded) ==
    /\ pc = "initFaceMesh"
    /\ IF libraryLoaded
          THEN /\ faceMeshReady' = TRUE
               /\ pc' = "camera"
               /\ UNCHANGED <<status, error>>
          ELSE /\ StartFailed("Failed to initialize face tracking.")
               /\ UNCHANGED faceMeshReady
    /\ failed' = IF libraryLoaded THEN failed ELSE failed \cup {"noFaceMesh"}
    /\ UNCHANGED <<intervals, uiState, canvas>>
    /\ UNCHANGED <<statusRef, audioReady, audioElement, playbackRate, cameraOn,
                   inflight, systemState, faceVars, log, lastResult, lastHand, ticks, lastTick>>

CameraOutcomes == {"ok", "noLibrary", "rejected"}

\* lines 238-257: the camera is created and started
StartCamera(outcome) ==
    /\ pc = "camera"
    /\ CASE outcome = "noLibrary" ->
              /\ StartFailed("Camera library not loaded.")
              /\ UNCHANGED cameraOn
         [] outcome = "rejected" ->
              /\ StartFailed("Initialization failed")
              /\ UNCHANGED cameraOn
         [] OTHER ->
              /\ cameraOn' = TRUE
              /\ pc' = "started"
              /\ UNCHANGED <<status, error>>
    /\ failed' = IF outcome = "ok" THEN failed ELSE failed \cup {outcome}
    /\ UNCHANGED <<intervals, uiState, canvas>>
    /\ UNCHANGED <<statusRef, audioReady, audioElement, playbackRate, faceMeshReady,
                   inflight, systemState, faceVars, log, lastResult, lastHand, ticks, lastTick>>

\* mutant: the status is set to RUNNING without waiting for the camera
FinishStartBeforeCamera ==
    /\ pc \in {"camera", "started"}
    /\ status' = "RUNNING"
    /\ pc' = "done"
    /\ UNCHANGED <<intervals, uiState, canvas, failed>>
    /\ UNCHANGED <<statusRef, error, audioReady, audioElement, playbackRate,
                   faceMeshReady, cameraOn, inflight, systemState, faceVars, log, lastResult, lastHand, ticks, lastTick>>

\* line 259: setStatus(AppStatus.RUNNING)
FinishStart ==
    /\ pc = "started"
    /\ status' = "RUNNING"
    /\ pc' = "done"
    /\ UNCHANGED <<intervals, uiState, canvas, failed>>
    /\ UNCHANGED <<statusRef, error, audioReady, audioElement, playbackRate,
                   faceMeshReady, cameraOn, inflight, systemState, faceVars, log, lastResult, lastHand, ticks, lastTick>>

\* mutant: the effect creates its timer without clearing the previous one
IntervalEffectNoCleanup(active, rendered) ==
    active + (IF rendered = "RUNNING" THEN 1 ELSE 0)

\* lines 183-186, 226 and 291-296: an effect with dependency [status].  The
\* cleanup of its previous run clears the timer that run created; the new run
\* creates a timer when the rendered status is RUNNING.
IntervalEffect(active, rendered) ==
    (IF active > 0 THEN active - 1 ELSE active)
        + (IF rendered = "RUNNING" THEN 1 ELSE 0)

\* The effects of a commit that rendered a new status, run together after the
\* render: statusRef (lines 21-23), the audio loop (lines 183-227), the UI
\* sync (lines 291-297) and isPausedRef of the canvas, which receives
\* isPaused = (status === PAUSED) (line 316; src/unnamed/part_002 227-229).
SyncStatusRef ==
    /\ statusRef # status
    /\ statusRef' = status
    /\ intervals' = [audio |-> IntervalEffect(intervals.audio, status),
                     ui |-> IntervalEffect(intervals.ui, status)]
    /\ canvas' = [canvas EXCEPT !.isPaused = (status = "PAUSED")]
    /\ failed' = IF pc = "done" THEN {} ELSE failed
    /\ UNCHANGED uiState
    /\ UNCHANGED <<status, error, pc, audioReady, audioElement, playbackRate,
                   faceMeshReady, cameraOn, inflight, systemState, faceVars, log, lastResult, lastHand, ticks, lastTick>>

\* mutant: every status but RUNNING is resumed
TogglePauseElseResume ==
    /\ \/ status = "RUNNING" /\ status' = "PAUSED"
       \/ status \in {"PAUSED", "ERROR"} /\ status' = "RUNNING"
    /\ UNCHANGED <<intervals, uiState, canvas, failed>>
    /\ UNCHANGED <<statusRef, error, pc, audioReady, audioElement, playbackRate,
                   faceMeshReady, cameraOn, inflight, systemState, faceVars, log, lastResult, lastHand, ticks, lastTick>>

\* togglePause (lines 268-286)
TogglePause ==
    /\ \/ status = "RUNNING" /\ status' = "PAUSED"
       \/ status = "PAUSED" /\ status' = "RUNNING"
    /\ UNCHANGED <<intervals, uiState, canvas, failed>>
    /\ UNCHANGED <<statusRef, error, pc, audioReady, audioElement, playbackRate,
                   faceMeshReady, cameraOn, inflight, systemState, faceVars, log, lastResult, lastHand, ticks, lastTick>>

-----------------------------------------------------------------------------
(* src/App.tsx: the vision path *)

\* Camera onFrame (lines 246-251): a frame is sent to the face tracker only
\* while statusRef is RUNNING.  The camera awaits onFrame, so one frame is in
\* flight at a time.  `limit` bounds the face results one behaviour processes.
CameraFrame(limit) ==
    /\ cameraOn
    /\ inflight = "none"
    /\ statusRef = "RUNNING"
    /\ faceMeshReady
    /\ Len(log) < limit
    /\ inflight' = "face"
    /\ UNCHANGED <<intervals, uiState, canvas, failed>>
    /\ UNCHANGED <<status, statusRef, error, pc, audioReady, audioElement,
                   playbackRate, faceMeshReady, cameraOn, systemState, faceVars,
                   log, lastResult, lastHand, ticks, lastTick>>

\* faceMesh.onResults (lines 58-129); results is results.multiFaceLandmarks
FaceResults(results) ==
    /\ inflight = "face"
    /\ inflight' = "none"
    /\ lastResult' = [lastResult EXCEPT
                         !.face = IF Len(results) > 0 THEN "face" ELSE "noFace"]
    /\ IF Len(results) > 0
          THEN LET landmarks == results[1]
                   rawRatio == RawRatio(landmarks)
                   rawCurvature == RawCurvature(landmarks)
                   smoothedOpenness == Smooth(smoothMouth, rawRatio)
                   curvature == Smooth(smoothCurvature, rawCurvature)
                   currentEmotion == Candidate(curvature)
                   d == Debounce(currentEmotion, stableEmotion, emotionTimer)
               IN /\ smoothMouth' = smoothedOpenness
                  /\ smoothCurvature' = curvature
                  /\ stableEmotion' = d.stable
                  /\ emotionTimer' = d.timer
                  /\ systemState' = [systemState EXCEPT
                                        !.mouthOpenness = Clamp01(smoothedOpenness),
                                        !.emotion = d.stable]
                  /\ log' = Append(log,
                               [mouthW |-> MouthW(landmarks),
                                rawRatio |-> rawRatio,
                                rawCurvature |-> rawCurvature,
                                cand |-> currentEmotion,
                                before |-> systemState.emotion,
                                stableBefore |-> stableEmotion,
                                timerBefore |-> emotionTimer,
                                emotion |-> d.stable,
                                timer |-> d.timer])
          ELSE UNCHANGED <<systemState, faceVars, log>>
    /\ UNCHANGED <<intervals, uiState, canvas, failed>>
    /\ UNCHANGED <<status, statusRef, error, pc, audioReady, audioElement,
                   playbackRate, faceMeshReady, cameraOn, lastHand, ticks, lastTick>>

StartSequence ==
    \/ HandleStart
    \/ \E outcome \in AudioOutcomes : InitAudio(outcome)
    \/ \E libraryLoaded \in BOOLEAN : InitFaceMesh(libraryLoaded)
    \/ \E outcome \in CameraOutcomes : StartCamera(outcome)
    \/ FinishStart
    \/ SyncStatusRef

Next ==
    \/ StartSequence
    \/ TogglePause
    \/ CameraFrame(MaxFrames)
    \/ \E f \in Faces : FaceResults(<<f>>)
    \/ FaceResults(NoFace)

Spec == Init /\ [][Next]_vars

\* The scenario "raw curvature held at 0": the session is started and every
\* face the tracker reports has its corners level with the lip centre.
NextCalm ==
    \/ StartSequence
    \/ CameraFrame(CalmFrames)
    \/ \E f \in CalmFaces : FaceResults(<<f>>)

SpecCalm == Init /\ [][NextCalm]_vars

-----------------------------------------------------------------------------
(* src/App.tsx: the audio analysis loop (lines 183-227) *)

\* the byte values a frequency bin takes in the model
Samples == {0, 128, 255}

\* getByteFrequencyData: one snapshot of bufferLength bins
Snapshots == [1..NumBins -> Samples]

RECURSIVE SumTo(_, _)
\* lines 193-196: sum of dataArray[0..n-1]
SumTo(dataArray, n) ==
    IF n = 0 THEN 0 ELSE SumTo(dataArray, n - 1) + dataArray[n]

RECURSIVE WeightedTo(_, _)
\* lines 199-204: sum of i * dataArray[i], the index i counted from 0
WeightedTo(dataArray, n) ==
    IF n = 0 THEN 0 ELSE WeightedTo(dataArray, n - 1) + (n - 1) * dataArray[n]

\* line 197: sum / (bufferLength * 255)
Amplitude(dataArray) ==
    TruncDiv(SumTo(dataArray, Len(dataArray)) * Unit, Len(dataArray) * 255)

\* mutant: with a zero denominator the centroid falls back to mid-spectrum
CentroidMidFallback(dataArray) ==
    LET numerator == WeightedTo(dataArray, Len(dataArray))
        denominator == SumTo(dataArray, Len(dataArray))
    IN IF denominator > 0 THEN TruncDiv(numerator * Unit, denominator)
                          ELSE TruncDiv(Len(dataArray) * Unit, 2)

\* line 205: denominator > 0 ? numerator / denominator : 0
Centroid(dataArray) ==
    LET numerator == WeightedTo(dataArray, Len(dataArray))
        denominator == SumTo(dataArray, Len(dataArray))
    IN IF denominator > 0 THEN TruncDiv(numerator * Unit, denominator) ELSE 0

\* mutant: the centroid is stored without dividing by the number of bins
NormalizedFreqUnscaled(dataArray) == Centroid(dataArray)

\* line 206: centroid / bufferLength
NormalizedFreq(dataArray) == TruncDiv(Centroid(dataArray), Len(dataArray))

HappyMusicRate == 11500   \* CONFIG.happyMusicRate 1.15
SadMusicRate == 8500      \* CONFIG.sadMusicRate 0.85

\* mutant: the happy and the sad rate are swapped
TargetRateSwapped(emotion) ==
    IF emotion = "HAPPY" THEN SadMusicRate
    ELSE IF emotion = "SAD" THEN HappyMusicRate
    ELSE Unit

\* lines 214-218
TargetRate(emotion) ==
    IF emotion = "HAPPY" THEN HappyMusicRate
    ELSE IF emotion = "SAD" THEN SadMusicRate
    ELSE Unit

\* The interval callback (lines 186-224), run by an active audio timer
AudioTick(dataArray) ==
    /\ intervals.audio > 0
    /\ ticks < MaxTicks
    /\ ticks' = ticks + 1
    /\ IF audioReady
          THEN /\ systemState' = [systemState EXCEPT
                                     !.soundAmplitude = Amplitude(dataArray),
                                     !.soundFrequency = NormalizedFreq(dataArray)]
               /\ playbackRate' =
                     IF audioElement
                        THEN playbackRate
                               + Scale(TargetRate(systemState.emotion) - playbackRate, 5, 100)
                        ELSE playbackRate
               /\ lastTick' = [dataArray |-> dataArray,
                               amplitude |-> Amplitude(dataArray),
                               centroid |-> Centroid(dataArray),
                               before |-> systemState.soundAmplitude]
          ELSE UNCHANGED <<systemState, playbackRate, lastTick>>
    /\ UNCHANGED <<intervals, uiState, canvas, failed>>
    /\ UNCHANGED <<status, statusRef, error, pc, audioReady, audioElement,
                   faceMeshReady, cameraOn, inflight, faceVars, log, lastResult, lastHand>>

NextAudio ==
    \/ StartSequence
    \/ TogglePause
    \/ \E dataArray \in Snapshots : AudioTick(dataArray)

SpecAudio == Init /\ [][NextAudio]_vars

-----------------------------------------------------------------------------
(* Claims about the audio loop of src/App.tsx *)

AllZero(dataArray) == \A i \in 1..Len(dataArray) : dataArray[i] = 0

\* C9: an audio tick whose snapshot is all zeros computes amplitude 0 and
\* spectral centroid 0 and writes soundFrequency = 0.
C9_SilentTick ==
    (ticks > 0 /\ AllZero(lastTick.dataArray)) =>
        /\ lastTick.amplitude = 0
        /\ lastTick.centroid = 0
        /\ systemState.soundFrequency = 0
        /\ systemState.soundAmplitude = 0

\* C9 witness: an all-zero tick after a tick that had stored non-zero values
C9_Witness ==
    /\ ticks > 1
    /\ AllZero(lastTick.dataArray)
    /\ lastTick.before > 0
    /\ systemState.soundFrequency = 0

\* C10 (as stated): the value an audio tick writes to soundAmplitude is
\* previous * 0.9 + (mean(samples) / 255) * 0.1.
C10_AmplitudeIsSmoothed ==
    ticks > 0 =>
        systemState.soundAmplitude
            = Scale(lastTick.before, 9, 10) + Scale(lastTick.amplitude, 1, 10)

-----------------------------------------------------------------------------
(* src/types.ts (lines 30-378): the hand + face variant of App.            *)
(* Its face handler divides by the mouth width unguarded, so               *)
(* mouthCurvature ranges over the IEEE values, finite or not.              *)

Fin(v) == [tag |-> "fin", v |-> v]
NaN == [tag |-> "nan", v |-> 0]
PosInf == [tag |-> "+inf", v |-> 0]
NegInf == [tag |-> "-inf", v |-> 0]

IsFinite(n) == n.tag = "fin"

\* a / b on finite operands, b >= 0: IEEE division
Quotient(a, b) ==
    IF b # 0 THEN Fin(TruncDiv(a * Unit, b))
    ELSE IF a = 0 THEN NaN
    ELSE IF a > 0 THEN PosInf
    ELSE NegInf

\* n * (num/den) with num/den a positive finite constant
Times(n, num, den) == IF IsFinite(n) THEN Fin(Scale(n.v, num, den)) ELSE n

\* a + b: IEEE addition
Plus(a, b) ==
    IF a.tag = "nan" \/ b.tag = "nan" THEN NaN
    ELSE IF IsFinite(a) /\ IsFinite(b) THEN Fin(a.v + b.v)
    ELSE IF IsFinite(a) THEN b
    ELSE IF IsFinite(b) THEN a
    ELSE IF a.tag = b.tag THEN a
    ELSE NaN

\* n > c and n < c for a finite constant c (false for NaN)
Above(n, c) == (IsFinite(n) /\ n.v > c) \/ n.tag = "+inf"
Below(n, c) == (IsFinite(n) /\ n.v < c) \/ n.tag = "-inf"

\* lines 41-49
TrackingInit ==
    /\ status = "IDLE"
    /\ statusRef = "IDLE"
    /\ error = ""
    /\ pc = "idle"
    /\ audioReady = FALSE
    /\ audioElement = FALSE
    /\ playbackRate = Unit
    /\ faceMeshReady = FALSE
    /\ cameraOn = FALSE
    /\ inflight = "none"
    /\ systemState = [emotion |-> "CALM", mouthOpenness |-> 0,
                      mouthCurvature |-> Fin(0),
                      soundAmplitude |-> 0, soundFrequency |-> 0,
                      handPosition |-> [x |-> 0, y |-> 0], isFist |-> FALSE]
    /\ smoothMouth = 0
    /\ smoothCurvature = 0
    /\ emotionTimer = 0
    /\ stableEmotion = "CALM"
    /\ log = <<>>
    /\ lastResult = [hand |-> "none", face |-> "none"]
    /\ lastHand = <<>>
    /\ ticks = 0
    /\ lastTick = [dataArray |-> <<>>, amplitude |-> 0, centroid |-> 0, before |-> 0]
    /\ intervals = [audio |-> 0, ui |-> 0]
    /\ uiState = SharedObject
    /\ canvas = CanvasInit
    /\ failed = {}

\* initAudio (lines 180-242) awaited by handleStart (line 302): the wind
\* engine; no microphone, no music element
TrackingInitAudio(contextCreated) ==
    /\ pc = "initAudio"
    /\ IF contextCreated
          THEN /\ audioReady' = TRUE
               /\ pc' = "initTracking"
               /\ UNCHANGED <<status, error>>
          ELSE /\ StartFailed("Failed to initialize audio engine.")
               /\ UNCHANGED audioReady
    /\ failed' = IF contextCreated THEN failed ELSE failed \cup {"noContext"}
    /\ UNCHANGED <<intervals, uiState, canvas>>
    /\ UNCHANGED <<statusRef, audioElement, playbackRate, faceMeshReady, cameraOn,
                   inflight, systemState, faceVars, log, lastResult, lastHand,
                   ticks, lastTick>>

\* initTracking (lines 71-177) awaited by handleStart (line 303)
InitTracking(librariesLoaded) ==
    /\ pc = "initTracking"
    /\ IF librariesLoaded
          THEN /\ faceMeshReady' = TRUE
               /\ pc' = "camera"
               /\ UNCHANGED <<status, error>>
          ELSE /\ StartFailed("Failed to initialize tracking.")
               /\ UNCHANGED faceMeshReady
    /\ failed' = IF librariesLoaded THEN failed ELSE failed \cup {"noTracking"}
    /\ UNCHANGED <<intervals, uiState, canvas>>
    /\ UNCHANGED <<statusRef, audioReady, audioElement, playbackRate, cameraOn,
                   inflight, systemState, faceVars, log, lastResult, lastHand,
                   ticks, lastTick>>

\* lines 305-322: the camera is created and started (the camera class is not
\* checked: a missing class or a rejected start both throw into the catch)
TrackingStartCamera(started) ==
    /\ pc = "camera"
    /\ IF started
          THEN /\ cameraOn' = TRUE
               /\ pc' = "started"
               /\ UNCHANGED <<status, error>>
          ELSE /\ StartFailed("Initialization failed")
               /\ UNCHANGED cameraOn
    /\ failed' = IF started THEN failed ELSE failed \cup {"rejected"}
    /\ UNCHANGED <<intervals, uiState, canvas>>
    /\ UNCHANGED <<statusRef, audioReady, audioElement, playbackRate, faceMeshReady,
                   inflight, systemState, faceVars, log, lastResult, lastHand,
                   ticks, lastTick>>

\* A hand: the palm centre (landmark 9) and the four fingertips (8, 12, 16, 20)
Hand(palm, reach) ==
    LET tipY == IF palm.y >= reach THEN palm.y - reach ELSE palm.y + reach
        tip == Pt(palm.x, tipY)
    IN [palm |-> palm, tips |-> <<tip, tip, tip, tip>>]

Palms == {Pt(0, 0), Pt(0, Unit), Pt(Unit, 0), Pt(Unit, Unit), Pt(2500, 5000)}

\* fingertips 0.2 (open hand) or 0.05 (fist) away from the palm centre
Hands == {Hand(p, r) : p \in Palms, r \in {2000, 500}}

NoHand == <<>>

\* mutant: the frame is sent whatever the status is
TrackingCameraFrameUngated(limit) ==
    /\ cameraOn
    /\ inflight = "none"
    /\ Len(log) < limit
    /\ inflight' = "hands"
    /\ UNCHANGED <<intervals, uiState, canvas, failed>>
    /\ UNCHANGED <<status, statusRef, error, pc, audioReady, audioElement,
                   playbackRate, faceMeshReady, cameraOn, systemState, faceVars,
                   log, lastResult, lastHand, ticks, lastTick>>

\* Camera onFrame (lines 308-316): the frame goes to the hand tracker first.
\* `limit` bounds the face results one behaviour processes.
TrackingCameraFrame(limit) ==
    /\ cameraOn
    /\ inflight = "none"
    /\ statusRef = "RUNNING"
    /\ Len(log) < limit
    /\ inflight' = "hands"
    /\ UNCHANGED <<intervals, uiState, canvas, failed>>
    /\ UNCHANGED <<status, statusRef, error, pc, audioReady, audioElement,
                   playbackRate, faceMeshReady, cameraOn, systemState, faceVars,
                   log, lastResult, lastHand, ticks, lastTick>>

\* mutant: x is not mirrored and y is shifted the wrong way
HandPositionUnmirrored(palmCenter) ==
    [x |-> palmCenter.x * 2 - Unit, y |-> -(palmCenter.y) * 2 - Unit]

\* lines 98-99: mirrored x, flipped y, both remapped from [0,1] to [-1,1]
HandPosition(palmCenter) ==
    [x |-> (Unit - palmCenter.x) * 2 - Unit, y |-> -(palmCenter.y) * 2 + Unit]

RECURSIVE TipDistance(_, _)
\* lines 103-107: sum of the distances of the first n fingertips to the palm
TipDistance(hand, n) ==
    IF n = 0 THEN 0
    ELSE TipDistance(hand, n - 1)
           + Hypot(hand.tips[n].x - hand.palm.x, hand.tips[n].y - hand.palm.y)

FistBelow == 3500    \* tipToMcpDist < 0.35

\* mutant: a result without a hand releases the controls
HandResultsResetOnGap(results) ==
    /\ inflight = "hands"
    /\ inflight' = "face"
    /\ lastResult' = [lastResult EXCEPT
                         !.hand = IF Len(results) > 0 THEN "hand" ELSE "noHand"]
    /\ IF Len(results) > 0
          THEN /\ systemState' = [systemState EXCEPT
                     !.handPosition = HandPosition(results[1].palm),
                     !.isFist = TipDistance(results[1], 4) < FistBelow]
               /\ lastHand' = results[1]
          ELSE /\ systemState' = [systemState EXCEPT
                     !.handPosition = [x |-> 0, y |-> 0],
                     !.isFist = FALSE]
               /\ UNCHANGED lastHand
    /\ UNCHANGED <<intervals, uiState, canvas, failed>>
    /\ UNCHANGED <<status, statusRef, error, pc, audioReady, audioElement,
                   playbackRate, faceMeshReady, cameraOn, faceVars, log, ticks,
                   lastTick>>

\* hands.onResults (lines 91-113); results is results.multiHandLandmarks.
\* onFrame then sends the frame to the face tracker (line 314).
HandResults(results) ==
    /\ inflight = "hands"
    /\ inflight' = "face"
    /\ lastResult' = [lastResult EXCEPT
                         !.hand = IF Len(results) > 0 THEN "hand" ELSE "noHand"]
    /\ IF Len(results) > 0
          THEN /\ systemState' = [systemState EXCEPT
                     !.handPosition = HandPosition(results[1].palm),
                     !.isFist = TipDistance(results[1], 4) < FistBelow]
               /\ lastHand' = results[1]
          ELSE UNCHANGED <<systemState, lastHand>>
    /\ UNCHANGED <<intervals, uiState, canvas, failed>>
    /\ UNCHANGED <<status, statusRef, error, pc, audioReady, audioElement,
                   playbackRate, faceMeshReady, cameraOn, faceVars, log, ticks,
                   lastTick>>

\* lines 141-150: (centerY - cornersY) / width
TrackingRawCurvature(f) ==
    LET twiceCornersY == f.left.y + f.right.y
        twiceCenterY == f.top.y + f.bottom.y
    IN Quotient(twiceCenterY - twiceCornersY, 2 * MouthW(f))

\* line 155: prevCurvature * 0.9 + rawCurvature * 0.1
TrackingSmooth(prevCurvature, rawCurvature) ==
    Plus(Times(prevCurvature, 9, 10), Times(rawCurvature, 1, 10))

TrackingHappyAbove == 400    \* curvature > 0.04
TrackingSadBelow == -300     \* curvature < -0.03

\* lines 162-168
TrackingEmotion(curvature) ==
    IF Above(curvature, TrackingHappyAbove) THEN "HAPPY"
    ELSE IF Below(curvature, TrackingSadBelow) THEN "SAD"
    ELSE "CALM"

\* faceMesh.onResults (lines 126-170)
TrackingFaceResults(results) ==
    /\ inflight = "face"
    /\ inflight' = "none"
    /\ lastResult' = [lastResult EXCEPT
                         !.face = IF Len(results) > 0 THEN "face" ELSE "noFace"]
    /\ IF Len(results) > 0
          THEN LET landmarks == results[1]
                   rawCurvature == TrackingRawCurvature(landmarks)
                   curvature == TrackingSmooth(systemState.mouthCurvature, rawCurvature)
               IN /\ systemState' = [systemState EXCEPT
                                        !.mouthCurvature = curvature,
                                        !.emotion = TrackingEmotion(curvature)]
                  /\ log' = Append(log,
                               [mouthW |-> MouthW(landmarks),
                                rawCurvature |-> rawCurvature,
                                before |-> systemState.emotion,
                                emotion |-> TrackingEmotion(curvature)])
          ELSE UNCHANGED <<systemState, log>>
    /\ UNCHANGED <<intervals, uiState, canvas, failed>>
    /\ UNCHANGED <<status, statusRef, error, pc, audioReady, audioElement,
                   playbackRate, faceMeshReady, cameraOn, faceVars, lastHand, ticks,
                   lastTick>>

TrackingFaces == {Smile, Frown, ZeroWidth, ZeroWidthLevel}

TrackingStartSequence ==
    \/ HandleStart
    \/ \E contextCreated \in BOOLEAN : TrackingInitAudio(contextCreated)
    \/ \E librariesLoaded \in BOOLEAN : InitTracking(librariesLoaded)
    \/ \E started \in BOOLEAN : TrackingStartCamera(started)
    \/ FinishStart
    \/ SyncStatusRef

NextTracking ==
    \/ TrackingStartSequence
    \/ TogglePause
    \/ TrackingCameraFrame(TrackFrames)
    \/ \E h \in Hands : HandResults(<<h>>)
    \/ HandResults(NoHand)
    \/ \E f \in TrackingFaces : TrackingFaceResults(<<f>>)
    \/ TrackingFaceResults(NoFace)

SpecTracking == TrackingInit /\ [][NextTracking]_vars

-----------------------------------------------------------------------------
(* The vision paths of both variants side by side: a behaviour runs one of  *)
(* the two App components, told apart by the shared record it constructed.  *)

IsTrackingVariant == "handPosition" \in DOMAIN systemState

InitVision == Init \/ TrackingInit

NextVision ==
    \/ HandleStart
    \/ FinishStart
    \/ SyncStatusRef
    \/ TogglePause
    \/ ~IsTrackingVariant /\ \E outcome \in AudioOutcomes : InitAudio(outcome)
    \/ ~IsTrackingVariant /\ \E libraryLoaded \in BOOLEAN : InitFaceMesh(libraryLoaded)
    \/ ~IsTrackingVariant /\ \E outcome \in CameraOutcomes : StartCamera(outcome)
    \/ ~IsTrackingVariant /\ CameraFrame(MaxFrames)
    \/ ~IsTrackingVariant /\ \E f \in Faces : FaceResults(<<f>>)
    \/ ~IsTrackingVariant /\ FaceResults(NoFace)
    \/ IsTrackingVariant /\ \E contextCreated \in BOOLEAN : TrackingInitAudio(contextCreated)
    \/ IsTrackingVariant /\ \E librariesLoaded \in BOOLEAN : InitTracking(librariesLoaded)
    \/ IsTrackingVariant /\ \E started \in BOOLEAN : TrackingStartCamera(started)
    \/ IsTrackingVariant /\ TrackingCameraFrame(TrackFrames)
    \/ IsTrackingVariant /\ \E h \in Hands : HandResults(<<h>>)
    \/ IsTrackingVariant /\ HandResults(NoHand)
    \/ IsTrackingVariant /\ \E f \in TrackingFaces : TrackingFaceResults(<<f>>)
    \/ IsTrackingVariant /\ TrackingFaceResults(NoFace)

SpecVision == InitVision /\ [][NextVision]_vars

-----------------------------------------------------------------------------
(* Claims about the vision path of src/App.tsx *)

\* C1 (as stated): whenever a face frame changes the committed emotion to E,
\* the candidate was E on that frame and on each of the 5 face frames before
\* it; a single differing reading never changes the committed emotion.
C1_CommitNeedsStreak ==
    \A n \in 1..Len(log) :
        log[n].emotion # log[n].before =>
            /\ n > DebounceFrames
            /\ \A i \in (n - DebounceFrames)..n : log[i].cand = log[n].emotion

\* C2: from committed CALM with the streak counter at 0, six consecutive face
\* frames with candidate SAD leave the emotion CALM after each of the first
\* five and make it SAD on the sixth.
C2_SadCommitsOnSixth ==
    \A i \in 1..Len(log) : \A k \in 1..(DebounceFrames + 1) :
        ( /\ i + k - 1 <= Len(log)
          /\ log[i].stableBefore = "CALM"
          /\ log[i].timerBefore = 0
          /\ \A j \in i..(i + k - 1) : log[j].cand = "SAD" )
        => log[i + k - 1].emotion = IF k <= DebounceFrames THEN "CALM" ELSE "SAD"

\* C2 witness: six SAD candidates in a row from the initial state, committed
\* on the sixth
C2_Witness ==
    /\ Len(log) = DebounceFrames + 1
    /\ \A j \in 1..Len(log) : log[j].cand = "SAD"
    /\ log[DebounceFrames].emotion = "CALM"
    /\ systemState.emotion = "SAD"

\* C3: from the initial state, as long as every face frame had raw curvature
\* 0, the committed emotion is CALM and the streak counter is 0.
C3_ZeroCurvatureStaysCalm ==
    (\A n \in 1..Len(log) : log[n].rawCurvature = 0) =>
        /\ systemState.emotion = "CALM"
        /\ stableEmotion = "CALM"
        /\ emotionTimer = 0

\* C3 witness: ten face frames of raw curvature 0 were processed
C3_Witness ==
    /\ Len(log) = 10
    /\ \A n \in 1..Len(log) : log[n].rawCurvature = 0
    /\ systemState.emotion = "CALM"

\* C4: mouthOpenness is within [0,1] in every reachable state.
C4_OpennessInUnitInterval ==
    /\ systemState.mouthOpenness >= 0
    /\ systemState.mouthOpenness <= Unit

\* C4 witness: after a zero-width mouth and frames with height/width above 1
\* the smoothed openness exceeds 1 and the published value is 1
C4_Witness ==
    /\ \E n \in 1..Len(log) : log[n].mouthW = 0
    /\ \E n \in 1..Len(log) : log[n].rawRatio > Unit
    /\ smoothMouth > Unit
    /\ systemState.mouthOpenness = Unit

\* C7 (as stated): a face frame whose mouth width is 0 has raw curvature 0.
C7_ZeroWidthZeroCurvature ==
    \A n \in 1..Len(log) : log[n].mouthW = 0 => log[n].rawCurvature = 0

-----------------------------------------------------------------------------
(* Claims about the tracking handlers of src/types.ts and of both variants *)

\* C5: after any hand frames with the palm centre in the unit square,
\* handPosition.x and handPosition.y are within [-1,1], with
\* x = (1 - palmX) * 2 - 1 and y = -palmY * 2 + 1.
C5_HandPositionInRange ==
    /\ systemState.handPosition.x >= -Unit
    /\ systemState.handPosition.x <= Unit
    /\ systemState.handPosition.y >= -Unit
    /\ systemState.handPosition.y <= Unit
    /\ lastHand # <<>> =>
          /\ systemState.handPosition.x = (Unit - lastHand.palm.x) * 2 - Unit
          /\ systemState.handPosition.y = Unit - lastHand.palm.y * 2

\* C5 witness: a palm in the top-left image corner maps to (1, 1)
C5_Witness ==
    /\ lastHand # <<>>
    /\ lastHand.palm = Pt(0, 0)
    /\ systemState.handPosition = [x |-> Unit, y |-> Unit]

\* C6: a tracking result without a face leaves emotion, mouthOpenness,
\* mouthCurvature, the smoothed values and the streak counter unchanged; a
\* result without a hand leaves handPosition and isFist unchanged; neither
\* changes the application status or the error.
C6_GapsHoldLastValues ==
    [][ /\ FaceResults(NoFace) =>
              UNCHANGED <<systemState, smoothMouth, smoothCurvature,
                          emotionTimer, stableEmotion, status, error>>
        /\ TrackingFaceResults(NoFace) => UNCHANGED <<systemState, status, error>>
        /\ HandResults(NoHand) => UNCHANGED <<systemState, status, error>> ]_vars

\* C6 witness: a frame with neither hand nor face was processed after a fist
\* and a non-CALM emotion had been stored, and both are still there
C6_Witness ==
    /\ IsTrackingVariant
    /\ lastResult = [hand |-> "noHand", face |-> "noFace"]
    /\ inflight = "none"
    /\ systemState.isFist
    /\ systemState.emotion # "CALM"
    /\ status = "RUNNING"

\* C8 (as stated): after a face frame with zero mouth width every numeric
\* field of the shared state is still a finite number.
C8_DegenerateFrameStaysFinite ==
    (\E n \in 1..Len(log) : log[n].mouthW = 0) =>
        IsFinite(systemState.mouthCurvature)

-----------------------------------------------------------------------------
(* src/types.ts: the generative update loop (lines 245-294) *)

\* mutant: the previous value is not damped
TrackingAmplitudeUndamped(previous, dataArray) ==
    previous + Scale(Amplitude(dataArray), 1, 10)

\* line 265: soundAmplitude * 0.9 + amplitude * 0.1
TrackingAmplitude(previous, dataArray) ==
    Scale(previous, 9, 10) + Scale(Amplitude(dataArray), 1, 10)

\* mutant: the smoothed amplitude is stored in the wrong field
TrackingAudioTickWrongField(dataArray, limit) ==
    /\ intervals.audio > 0
    /\ ticks < limit
    /\ ticks' = ticks + 1
    /\ IF audioReady
          THEN /\ systemState' = [systemState EXCEPT
                    !.mouthOpenness =
                        TrackingAmplitude(systemState.soundAmplitude, dataArray)]
               /\ lastTick' = [dataArray |-> dataArray,
                               amplitude |-> Amplitude(dataArray),
                               centroid |-> 0,
                               before |-> systemState.soundAmplitude]
          ELSE UNCHANGED <<systemState, lastTick>>
    /\ UNCHANGED <<status, statusRef, error, pc, audioReady, audioElement,
                   playbackRate, faceMeshReady, cameraOn, inflight, faceVars, log,
                   lastResult, lastHand, intervals, uiState, canvas, failed>>

\* The interval callback (lines 249-291), run by an active audio timer.  The
\* wind modulation (lines 267-289) only sets targets of the filter and gain
\* nodes of the audio graph, which the program never reads back.
TrackingAudioTick(dataArray, limit) ==
    /\ intervals.audio > 0
    /\ ticks < limit
    /\ ticks' = ticks + 1
    /\ IF audioReady
          THEN /\ systemState' = [systemState EXCEPT
                    !.soundAmplitude = TrackingAmplitude(@, dataArray)]
               /\ lastTick' = [dataArray |-> dataArray,
                               amplitude |-> Amplitude(dataArray),
                               centroid |-> 0,
                               before |-> systemState.soundAmplitude]
          ELSE UNCHANGED <<systemState, lastTick>>
    /\ UNCHANGED <<status, statusRef, error, pc, audioReady, audioElement,
                   playbackRate, faceMeshReady, cameraOn, inflight, faceVars, log,
                   lastResult, lastHand, intervals, uiState, canvas, failed>>

-----------------------------------------------------------------------------
(* The scenario "all-255 audio frame sustained", in both variants: after    *)
(* LeadTicks ticks of any content every tick reads the all-255 snapshot.    *)

LeadTicks == 1             \* audio ticks of any content before the loud ones
LoudTicks == 80            \* audio ticks of src/types.ts in the scenario
AmplitudeTolerance == 10   \* "converged": within 0.001 of 1.0

Loud == [i \in 1..NumBins |-> 255]

NextLoud ==
    \/ HandleStart
    \/ FinishStart
    \/ SyncStatusRef
    \/ TogglePause
    \/ ~IsTrackingVariant /\ \E outcome \in AudioOutcomes : InitAudio(outcome)
    \/ ~IsTrackingVariant /\ \E libraryLoaded \in BOOLEAN : InitFaceMesh(libraryLoaded)
    \/ ~IsTrackingVariant /\ \E outcome \in CameraOutcomes : StartCamera(outcome)
    \/ ~IsTrackingVariant /\ ticks < LeadTicks /\ \E dataArray \in Snapshots : AudioTick(dataArray)
    \/ ~IsTrackingVariant /\ AudioTick(Loud)
    \/ IsTrackingVariant /\ \E contextCreated \in BOOLEAN : TrackingInitAudio(contextCreated)
    \/ IsTrackingVariant /\ \E librariesLoaded \in BOOLEAN : InitTracking(librariesLoaded)
    \/ IsTrackingVariant /\ \E started \in BOOLEAN : TrackingStartCamera(started)
    \/ IsTrackingVariant /\ ticks < LeadTicks
          /\ \E dataArray \in Snapshots : TrackingAudioTick(dataArray, LoudTicks)
    \/ IsTrackingVariant /\ TrackingAudioTick(Loud, LoudTicks)

\* The timers fire as long as they are active, and the effects of a commit
\* run: weak fairness of the loud tick and of the effects.
SpecLoud ==
    /\ InitVision
    /\ [][NextLoud]_vars
    /\ WF_vars(SyncStatusRef)
    /\ WF_vars(AudioTick(Loud))
    /\ WF_vars(TrackingAudioTick(Loud, LoudTicks))

\* C11: when every audio tick from some point on reads an all-255 snapshot,
\* soundAmplitude does not decrease on such a tick, never exceeds 1.0, and,
\* in a session that stays RUNNING, eventually stays within the tolerance
\* of 1.0.
C11_LoudConverges ==
    /\ [](systemState.soundAmplitude <= Unit)
    /\ []((ticks > 0 /\ lastTick.dataArray = Loud) =>
              systemState.soundAmplitude >= lastTick.before)
    /\ (<>[](status = "RUNNING")) =>
           <>[](systemState.soundAmplitude >= Unit - AmplitudeTolerance)

\* C11 witness: the smoothed amplitude of src/types.ts has climbed from 0 to
\* within the tolerance of 1.0 over at least 70 loud ticks
C11_Witness ==
    /\ IsTrackingVariant
    /\ ticks >= 70
    /\ lastTick.dataArray = Loud
    /\ lastTick.before < systemState.soundAmplitude
    /\ systemState.soundAmplitude >= Unit - AmplitudeTolerance

-----------------------------------------------------------------------------
(* The audio loops of both variants under any snapshots *)

NextSound ==
    \/ HandleStart
    \/ FinishStart
    \/ SyncStatusRef
    \/ TogglePause
    \/ ~IsTrackingVariant /\ \E outcome \in AudioOutcomes : InitAudio(outcome)
    \/ ~IsTrackingVariant /\ \E libraryLoaded \in BOOLEAN : InitFaceMesh(libraryLoaded)
    \/ ~IsTrackingVariant /\ \E outcome \in CameraOutcomes : StartCamera(outcome)
    \/ ~IsTrackingVariant /\ \E dataArray \in Snapshots : AudioTick(dataArray)
    \/ IsTrackingVariant /\ \E contextCreated \in BOOLEAN : TrackingInitAudio(contextCreated)
    \/ IsTrackingVariant /\ \E librariesLoaded \in BOOLEAN : InitTracking(librariesLoaded)
    \/ IsTrackingVariant /\ \E started \in BOOLEAN : TrackingStartCamera(started)
    \/ IsTrackingVariant /\ \E dataArray \in Snapshots : TrackingAudioTick(dataArray, MaxTicks)

SpecSound == InitVision /\ [][NextSound]_vars

\* C12: in every reachable state, after any audio ticks with any 8-bit bin
\* values, soundFrequency and soundAmplitude are within [0,1].
C12_SoundInUnitInterval ==
    /\ systemState.soundFrequency >= 0
    /\ systemState.soundFrequency <= Unit
    /\ systemState.soundAmplitude >= 0
    /\ systemState.soundAmplitude <= Unit

\* C12 witness: all the energy sits in the last bin at full scale, so the
\* centroid is the last index and soundFrequency is (N - 1) / N
C12_Witness ==
    /\ ~IsTrackingVariant
    /\ ticks > 1
    /\ \A i \in 1..(NumBins - 1) : lastTick.dataArray[i] = 0
    /\ lastTick.dataArray[NumBins] = 255
    /\ lastTick.before = Unit
    /\ systemState.soundFrequency = TruncDiv((NumBins - 1) * Unit, NumBins)
    /\ systemState.soundAmplitude > 0

-----------------------------------------------------------------------------
(* src/unnamed/part_002: the render / physics tick of VisualizerCanvas     *)
(* (animate, lines 487-686).  The canvas reads handPosition and isFist, so  *)
(* it belongs to the src/types.ts variant of App.  The bobbing height, the  *)
(* orientations and the butterfly are functions of timeRef and of the       *)
(* positions modelled here and feed nothing back; they are left out.        *)

\* THREE lerp: current += (target - current) * alpha, alpha = num / den
\* mutant: the blend factor is added to 1, so the value passes its target
LerpPast(current, target, num, den) ==
    current + Scale(target - current, den + num, den)

Lerp(current, target, num, den) == current + Scale(target - current, num, den)

\* Color.lerp(target, 0.05), channel by channel
LerpColor(current, target) ==
    [i \in 1..3 |-> Lerp(current[i], target[i], 5, 100)]

\* lines 594-648: the targets of the current emotion (CONFIG colours from
\* src/constants.ts lines 9-11)
Targets(emotion) ==
    CASE emotion = "CALM" ->
           [base |-> Color(26, 42, 10), tip |-> Color(0, 255, 213),
            sun |-> Color(255, 170, 51), weatherColor |-> Color(230, 194, 41),
            weatherSpeed |-> 6 * Unit, weatherSway |-> 2 * Unit,
            weatherSize |-> 5 * Unit,
            haloOpacity |-> Scale(Unit, 4, 10), haloColor |-> Color(255, 170, 0)]
      [] emotion = "HAPPY" ->
           [base |-> Color(42, 90, 42), tip |-> Color(255, 42, 0),
            sun |-> Color(255, 255, 204), weatherColor |-> Color(136, 255, 136),
            weatherSpeed |-> 8 * Unit, weatherSway |-> Scale(Unit, 15, 10),
            weatherSize |-> 4 * Unit,
            haloOpacity |-> Scale(Unit, 8, 10), haloColor |-> Color(255, 254, 224)]
      [] OTHER ->
           [base |-> Color(5, 16, 26), tip |-> Color(98, 0, 255),
            sun |-> Color(136, 153, 170), weatherColor |-> Color(221, 221, 255),
            weatherSpeed |-> 25 * Unit, weatherSway |-> Scale(Unit, 5, 10),
            weatherSize |-> Scale(Unit, 25, 10),
            haloOpacity |-> 0, haloColor |-> Color(255, 170, 51)]

\* mutant: a reading on the edge of the deadzone already moves the player
TargetVelocityAtDeadzone(state) ==
    LET joyX == state.handPosition.x
        joyY == state.handPosition.y
        dist == Hypot(joyX, joyY)
        deadzone == Scale(Unit, 15, 100)
        speed == IF dist >= deadzone THEN (dist - deadzone) * 2 ELSE 0
        turn == IF dist >= deadzone THEN Scale(joyX, 25, 10) ELSE 0
    IN [x |-> turn, y |-> IF state.isFist THEN speed ELSE -speed]

\* lines 495-511: the target velocity of the joystick reading; x is the turn
\* rate (targetVelX), y the forward speed along Z (targetVelZ)
TargetVelocity(state) ==
    LET joyX == state.handPosition.x
        joyY == state.handPosition.y
        dist == Hypot(joyX, joyY)
        deadzone == Scale(Unit, 15, 100)
        speed == IF dist > deadzone THEN (dist - deadzone) * 2 ELSE 0
        turn == IF dist > deadzone THEN Scale(joyX, 25, 10) ELSE 0
    IN [x |-> turn, y |-> IF state.isFist THEN speed ELSE -speed]

\* mutant: the velocity is the raw target
VelocityRaw(velocity, state) == TargetVelocity(state)

\* lines 513-514: the velocity blended toward the target
Velocity(velocity, state) ==
    LET target == TargetVelocity(state)
    IN [x |-> Scale(velocity.x, 9, 10) + Scale(target.x, 1, 10),
        y |-> Scale(velocity.y, 9, 10) + Scale(target.y, 1, 10)]

\* WORLD_EXTENT - 100 (lines 12, 521)
MaxRange == (5000 - 100) * Unit

\* lines 516-525: the position advanced by the velocity and kept in the world
Position(position, velocity) ==
    [x |-> Max(Min(position.x + Scale(velocity.x, 6, 10), MaxRange), -MaxRange),
     z |-> Max(Min(position.z + Scale(velocity.y, 6, 10), MaxRange), -MaxRange)]

\* lines 539-548: the camera follows the player, 30 above and 60 behind
Camera(camera, position) ==
    [x |-> Lerp(camera.x, position.x, 5, 100),
     y |-> Lerp(camera.y, 30 * Unit, 5, 100),
     z |-> Lerp(camera.z, position.z + 60 * Unit, 5, 100)]

\* mutant: the base wind is left out
WindStrengthNoBase(soundAmplitude) == soundAmplitude * 5

\* line 652: 0.5 + soundAmplitude * 5.0
WindStrength(soundAmplitude) == Scale(Unit, 5, 10) + soundAmplitude * 5

\* lines 491-683: the canvas after a tick that is not paused
Rendered(c, state) ==
    LET target == Targets(state.emotion)
        velocity == Velocity(c.velocity, state)
        position == Position(c.position, velocity)
    IN [c EXCEPT
           !.time = @ + Scale(Unit, 1, 100),
           !.velocity = velocity,
           !.position = position,
           !.camera = Camera(@, position),
           !.windStrength = WindStrength(state.soundAmplitude),
           !.baseColor = LerpColor(@, target.base),
           !.tipColor = LerpColor(@, target.tip),
           !.sunColor = LerpColor(@, target.sun),
           !.weather = [color |-> LerpColor(@.color, target.weatherColor),
                        speed |-> Lerp(@.speed, target.weatherSpeed, 5, 100),
                        sway |-> Lerp(@.sway, target.weatherSway, 5, 100),
                        size |-> Lerp(@.size, target.weatherSize, 5, 100)],
           !.haloColor = LerpColor(@, target.haloColor),
           !.haloOpacity = Lerp(@, target.haloOpacity, 2, 100)]

\* mutant: the clock advances before the paused flag is looked at
AnimateClockFirst(limit) ==
    /\ canvas.frame
    /\ canvas.frameId < limit
    /\ canvas' =
          IF canvas.isPaused
             THEN [canvas EXCEPT !.frameId = @ + 1, !.skipped = @ + 1,
                                 !.time = @ + Scale(Unit, 1, 100)]
             ELSE [Rendered(canvas, systemState) EXCEPT
                      !.frameId = @ + 1, !.skipped = 0]
    /\ UNCHANGED <<status, statusRef, error, pc, audioReady, audioElement,
                   playbackRate, faceMeshReady, cameraOn, inflight, systemState,
                   faceVars, log, lastResult, lastHand, ticks, lastTick,
                   intervals, uiState, failed>>

\* animate (lines 487-686): the next frame is requested, then the tick
\* returns when the paused flag is set.  `limit` bounds the calls of animate.
Animate(limit) ==
    /\ canvas.frame
    /\ canvas.frameId < limit
    /\ canvas' =
          IF canvas.isPaused
             THEN [canvas EXCEPT !.frameId = @ + 1, !.skipped = @ + 1]
             ELSE [Rendered(canvas, systemState) EXCEPT
                      !.frameId = @ + 1, !.skipped = 0]
    /\ UNCHANGED <<status, statusRef, error, pc, audioReady, audioElement,
                   playbackRate, faceMeshReady, cameraOn, inflight, systemState,
                   faceVars, log, lastResult, lastHand, ticks, lastTick,
                   intervals, uiState, failed>>

\* the cleanup of the canvas (lines 690-708): cancelAnimationFrame
Unmount ==
    /\ canvas.frame
    /\ canvas' = [canvas EXCEPT !.frame = FALSE]
    /\ UNCHANGED <<status, statusRef, error, pc, audioReady, audioElement,
                   playbackRate, faceMeshReady, cameraOn, inflight, systemState,
                   faceVars, log, lastResult, lastHand, ticks, lastTick,
                   intervals, uiState, failed>>

\* src/types.ts lines 343-347 (src/App.tsx lines 291-297): the UI timer copies
\* the shared record into the React state uiState
UiTick ==
    /\ intervals.ui > 0
    /\ uiState' = Copy(systemState)
    /\ UNCHANGED <<status, statusRef, error, pc, audioReady, audioElement,
                   playbackRate, faceMeshReady, cameraOn, inflight, systemState,
                   faceVars, log, lastResult, lastHand, ticks, lastTick,
                   intervals, canvas, failed>>

-----------------------------------------------------------------------------
(* The src/types.ts session with its canvas: tracking, audio loop, render   *)
(* tick and pause.                                                          *)

RenderTicks == 3     \* calls of animate in one behaviour
RenderFrames == 1    \* camera frames in one behaviour with the canvas
RenderAudioTicks == 1   \* audio ticks in one behaviour with the canvas

\* a fist in the image corner: handPosition (-1, 1)
RenderHands == {Hand(Pt(Unit, 0), 500)}

\* one reading of either face changes the emotion: SAD, HAPPY
RenderFaces == {Frown, Grin}

NextRender ==
    \/ TrackingStartSequence
    \/ TogglePause
    \/ TrackingCameraFrame(RenderFrames)
    \/ \E h \in RenderHands : HandResults(<<h>>)
    \/ \E f \in RenderFaces : TrackingFaceResults(<<f>>)
    \/ TrackingAudioTick(Loud, RenderAudioTicks)
    \/ Animate(RenderTicks)

SpecRender == TrackingInit /\ [][NextRender]_vars

\* C13: a render tick executed while the paused flag is set changes nothing
\* but the id of the requested frame: time, player position and velocity,
\* camera position, wind strength, every blended colour and weather
\* parameter are the same before and after it.
C13_PausedTickChangesNothing ==
    [][ (canvas.isPaused /\ canvas'.frameId # canvas.frameId) =>
           [canvas' EXCEPT !.frameId = canvas.frameId,
                           !.skipped = canvas.skipped] = canvas ]_vars

\* C13 witness: two consecutive paused ticks after a rendered one
C13_Witness ==
    /\ canvas.isPaused
    /\ canvas.skipped >= 2
    /\ canvas.time > 0
    /\ status = "PAUSED"

-----------------------------------------------------------------------------
(* The periodic ticks of a session, in both variants: the audio timer, the  *)
(* UI timer and, with the canvas of the src/types.ts variant, the           *)
(* animation frame.                                                         *)

NextSession ==
    \/ HandleStart
    \/ FinishStart
    \/ SyncStatusRef
    \/ TogglePause
    \/ UiTick
    \/ ~IsTrackingVariant /\ \E outcome \in AudioOutcomes : InitAudio(outcome)
    \/ ~IsTrackingVariant /\ \E libraryLoaded \in BOOLEAN : InitFaceMesh(libraryLoaded)
    \/ ~IsTrackingVariant /\ \E outcome \in CameraOutcomes : StartCamera(outcome)
    \/ ~IsTrackingVariant /\ ticks < RenderAudioTicks /\ AudioTick(Loud)
    \/ IsTrackingVariant /\ \E contextCreated \in BOOLEAN : TrackingInitAudio(contextCreated)
    \/ IsTrackingVariant /\ \E librariesLoaded \in BOOLEAN : InitTracking(librariesLoaded)
    \/ IsTrackingVariant /\ \E started \in BOOLEAN : TrackingStartCamera(started)
    \/ IsTrackingVariant /\ TrackingAudioTick(Loud, RenderAudioTicks)
    \/ IsTrackingVariant /\ Animate(RenderTicks)
    \/ IsTrackingVariant /\ Unmount

SpecSession == InitVision /\ [][NextSession]_vars

\* C14 (as stated): whenever the application status is not RUNNING no audio
\* tick and no UI tick executes; each entry into RUNNING leaves exactly one
\* audio timer and one UI timer active; after the canvas is unmounted no
\* render tick executes.
C14_NoTickOutsideRunning ==
    /\ [][ /\ ticks' # ticks => status = "RUNNING"
           /\ UiTick => status = "RUNNING"
           /\ ~canvas.frame => canvas'.frameId = canvas.frameId ]_vars
    /\ [](intervals.audio <= 1 /\ intervals.ui <= 1)
    /\ []((status = "RUNNING" /\ statusRef = "RUNNING") =>
              intervals = [audio |-> 1, ui |-> 1])

\* C14 (amended): an audio tick or a UI tick executes only while the status
\* whose effects have run (statusRef) is RUNNING; at most one timer of each
\* kind is ever active, exactly one of each once the effects of an entry
\* into RUNNING have run and none once the effects of leaving RUNNING have
\* run; after the canvas is unmounted no render tick executes.
C14_NoTickOutlivesItsEffect ==
    /\ [][ /\ ticks' # ticks => statusRef = "RUNNING"
           /\ UiTick => statusRef = "RUNNING"
           /\ ~canvas.frame => canvas'.frameId = canvas.frameId ]_vars
    /\ [](intervals.audio <= 1 /\ intervals.ui <= 1)
    /\ [](statusRef = "RUNNING" => intervals = [audio |-> 1, ui |-> 1])
    /\ [](statusRef # "RUNNING" => intervals = [audio |-> 0, ui |-> 0])

\* C14 witness: a session that was paused and resumed has one timer of each
\* kind, has run audio ticks, and its canvas was unmounted after a paused tick
C14_Witness ==
    /\ status = "RUNNING"
    /\ statusRef = "RUNNING"
    /\ intervals = [audio |-> 1, ui |-> 1]
    /\ ticks >= 1
    /\ canvas.skipped >= 1
    /\ ~canvas.isPaused
    /\ ~canvas.frame

-----------------------------------------------------------------------------
(* The producers and the consumers of the shared record side by side *)

NextWriters ==
    \/ NextRender
    \/ UiTick

SpecWriters == TrackingInit /\ [][NextWriters]_vars

\* C15: the tracking callbacks never modify soundAmplitude or soundFrequency,
\* the audio tick never modifies emotion, mouthOpenness, mouthCurvature,
\* handPosition or isFist, and the render tick and the UI tick modify no
\* field of the shared record.
C15_OneWriterPerField ==
    [][ /\ (inflight # "none" /\ inflight' # inflight) =>
               /\ systemState'.soundAmplitude = systemState.soundAmplitude
               /\ systemState'.soundFrequency = systemState.soundFrequency
        /\ ticks' # ticks =>
               /\ systemState'.emotion = systemState.emotion
               /\ systemState'.mouthOpenness = systemState.mouthOpenness
               /\ systemState'.mouthCurvature = systemState.mouthCurvature
               /\ systemState'.handPosition = systemState.handPosition
               /\ systemState'.isFist = systemState.isFist
        /\ canvas'.frameId # canvas.frameId => systemState' = systemState
        /\ uiState' # uiState => systemState' = systemState ]_vars

\* C15 witness: both trackers and the audio tick have written their fields,
\* a render tick has consumed them and the UI timer has copied them
C15_Witness ==
    /\ systemState.emotion # "CALM"
    /\ systemState.isFist
    /\ systemState.soundAmplitude > 0
    /\ canvas.windStrength = WindStrength(systemState.soundAmplitude)
    /\ canvas.velocity.x # 0
    /\ uiState = Copy(systemState)

-----------------------------------------------------------------------------
(* Claims about the start sequence *)

\* C16 (as stated): if a required collaborator is unavailable or denied
\* during the start sequence (tracking library, camera library or camera
\* start, microphone, audio context, music playback), the start ends with
\* status ERROR and an error message, and the status never becomes RUNNING
\* for that start.
C16_FailureEndsInError ==
    failed # {} =>
        /\ status # "RUNNING"
        /\ pc = "done" => (status = "ERROR" /\ error # "")

\* Start, pause, tracking callbacks and timers of both variants
NextFailure ==
    \/ HandleStart
    \/ FinishStart
    \/ SyncStatusRef
    \/ TogglePause
    \/ UiTick
    \/ ~IsTrackingVariant /\ \E outcome \in AudioOutcomes : InitAudio(outcome)
    \/ ~IsTrackingVariant /\ \E libraryLoaded \in BOOLEAN : InitFaceMesh(libraryLoaded)
    \/ ~IsTrackingVariant /\ \E outcome \in CameraOutcomes : StartCamera(outcome)
    \/ ~IsTrackingVariant /\ ticks < RenderAudioTicks /\ AudioTick(Loud)
    \/ ~IsTrackingVariant /\ CameraFrame(RenderFrames)
    \/ ~IsTrackingVariant /\ \E f \in RenderFaces : FaceResults(<<f>>)
    \/ IsTrackingVariant /\ \E contextCreated \in BOOLEAN : TrackingInitAudio(contextCreated)
    \/ IsTrackingVariant /\ \E librariesLoaded \in BOOLEAN : InitTracking(librariesLoaded)
    \/ IsTrackingVariant /\ \E started \in BOOLEAN : TrackingStartCamera(started)
    \/ IsTrackingVariant /\ TrackingAudioTick(Loud, RenderAudioTicks)
    \/ IsTrackingVariant /\ TrackingCameraFrame(RenderFrames)
    \/ IsTrackingVariant /\ \E h \in RenderHands : HandResults(<<h>>)
    \/ IsTrackingVariant /\ \E f \in RenderFaces : TrackingFaceResults(<<f>>)

SpecFailure == InitVision /\ [][NextFailure]_vars

\* C17: once the status is ERROR no step changes it: no pause toggle,
\* tracking callback or timer leaves ERROR, the start sequence is not run
\* again, the camera sends no frame and no timer is or becomes active.
C17_ErrorIsTerminal ==
    /\ [][ status = "ERROR" =>
              /\ status' = "ERROR"
              /\ error' = error
              /\ pc' = pc
              /\ ticks' = ticks
              /\ inflight' = inflight
              /\ intervals' = intervals ]_vars
    /\ [](status = "ERROR" =>
              /\ intervals = [audio |-> 0, ui |-> 0]
              /\ pc = "done"
              /\ ~cameraOn)

\* C17 witness: a start failed at the camera, after the audio and the
\* tracker had been set up, and the effects of the ERROR status have run
C17_Witness ==
    /\ status = "ERROR"
    /\ statusRef = "ERROR"
    /\ error # ""
    /\ audioReady
    /\ faceMeshReady
    /\ failed = {}

-----------------------------------------------------------------------------
(* src/App.tsx: the face handler and the audio loop together, for the      *)
(* music speed that follows the committed emotion                          *)

MusicFaces == {Smile, Frown}

NextMusic ==
    \/ StartSequence
    \/ TogglePause
    \/ CameraFrame(MaxFrames)
    \/ \E f \in MusicFaces : FaceResults(<<f>>)
    \/ AudioTick(Loud)

SpecMusic == Init /\ [][NextMusic]_vars

\* C18: on every audio tick with a music source present the playback rate
\* moves by exactly 0.05 * (target - rate), the target being the configured
\* happy rate for HAPPY, the configured sad rate for SAD and 1.0 for CALM;
\* the rate is never set to its target in one tick and never crosses it.
C18_RateApproachesTarget ==
    [][ (ticks' # ticks /\ audioElement) =>
           LET emotion == systemState.emotion
               target == IF emotion = "HAPPY" THEN HappyMusicRate
                         ELSE IF emotion = "SAD" THEN SadMusicRate
                         ELSE Unit
           IN /\ playbackRate' = playbackRate + Scale(target - playbackRate, 5, 100)
              /\ playbackRate # target => playbackRate' # target
              /\ playbackRate <= target => playbackRate' <= target
              /\ playbackRate >= target => playbackRate' >= target ]_vars

\* C18 witness: after the emotion was committed the rate has left 1.0 and is
\* on its way to the configured rate, two ticks later still short of it
C18_Witness ==
    /\ systemState.emotion # "CALM"
    /\ ticks >= 2
    /\ audioElement
    /\ playbackRate # Unit
    /\ \/ systemState.emotion = "HAPPY" /\ playbackRate > Unit
                                        /\ playbackRate < HappyMusicRate
       \/ systemState.emotion = "SAD" /\ playbackRate < Unit
                                      /\ playbackRate > SadMusicRate

-----------------------------------------------------------------------------
(* Claims about the continuous outputs of the render tick *)

Distance(a, b) == IF a >= b THEN a - b ELSE b - a

\* the step from v to w covers at most half of the distance from v to t
BoundedStep(v, w, t) == 2 * Distance(w, v) <= Distance(t, v)

BoundedColorStep(v, w, t) == \A i \in 1..3 : BoundedStep(v[i], w[i], t[i])

\* C19 (as stated): between two consecutive non-paused render ticks every
\* continuous output (grass base and tip colour, sun colour, weather
\* colour, speed, sway and size, halo colour and opacity, and wind strength)
\* moves by at most a fixed fraction of its distance to its current target,
\* so none of them jumps in one tick.  The fraction is taken as one half.
C19_NoOutputJumps ==
    [][ (canvas'.frameId # canvas.frameId /\ ~canvas.isPaused) =>
           LET target == Targets(systemState.emotion)
               c == canvas
               d == canvas'
           IN /\ BoundedColorStep(c.baseColor, d.baseColor, target.base)
              /\ BoundedColorStep(c.tipColor, d.tipColor, target.tip)
              /\ BoundedColorStep(c.sunColor, d.sunColor, target.sun)
              /\ BoundedColorStep(c.weather.color, d.weather.color,
                                  target.weatherColor)
              /\ BoundedStep(c.weather.speed, d.weather.speed, target.weatherSpeed)
              /\ BoundedStep(c.weather.sway, d.weather.sway, target.weatherSway)
              /\ BoundedStep(c.weather.size, d.weather.size, target.weatherSize)
              /\ BoundedColorStep(c.haloColor, d.haloColor, target.haloColor)
              /\ BoundedStep(c.haloOpacity, d.haloOpacity, target.haloOpacity)
              /\ BoundedStep(c.windStrength, d.windStrength,
                             Scale(Unit, 5, 10) + systemState.soundAmplitude * 5)
      ]_vars

-----------------------------------------------------------------------------
(* Blending toward the targets of a held emotion.  Every event of the      *)
(* session (start, pause, camera frames and their results) falls within the *)
(* first EarlyTicks render ticks; from then on the committed emotion is     *)
(* held and the canvas keeps animating.                                     *)

EarlyTicks == 3        \* render ticks during which the session's events occur
BlendTicks == 300      \* calls of animate in one behaviour of the blend
BlendTolerance == 50   \* fixed-point units: 0.02 * distance truncates to 0 below it

NextBlend ==
    \/ canvas.frameId < EarlyTicks /\ TrackingStartSequence
    \/ canvas.frameId < EarlyTicks /\ TogglePause
    \/ canvas.frameId < EarlyTicks /\ TrackingCameraFrame(RenderFrames)
    \/ canvas.frameId < EarlyTicks /\ HandResults(<<>>)
    \/ canvas.frameId < EarlyTicks /\ \E f \in RenderFaces : TrackingFaceResults(<<f>>)
    \/ Animate(BlendTicks)

\* Animate(BlendTicks) changes canvas.frameId whenever it can be taken, so
\* ENABLED <<Animate(BlendTicks)>>_vars is its guard
AnimateEnabled == canvas.frame /\ canvas.frameId < BlendTicks

\* requestAnimationFrame keeps calling animate while the canvas is mounted:
\* weak fairness of Animate(BlendTicks), WF_vars(Animate(BlendTicks)), with
\* ENABLED written out as the guard
SpecBlend ==
    /\ TrackingInit
    /\ [][NextBlend]_vars
    /\ ([]<>(~AnimateEnabled) \/ []<><<Animate(BlendTicks)>>_vars)

\* the blended values of the canvas, and their targets in the same order
Blended(c) ==
    c.baseColor \o c.tipColor \o c.sunColor \o c.weather.color \o c.haloColor
       \o <<c.weather.speed, c.weather.sway, c.weather.size, c.haloOpacity>>

BlendTargets(emotion) ==
    LET target == Targets(emotion)
    IN target.base \o target.tip \o target.sun \o target.weatherColor
          \o target.haloColor
          \o <<target.weatherSpeed, target.weatherSway, target.weatherSize,
               target.haloOpacity>>

\* the step from v to w gets no farther from t and does not pass it
Approaches(v, w, t) ==
    /\ Distance(w, t) <= Distance(v, t)
    /\ v <= t => w <= t
    /\ v >= t => w >= t

Settled(c, emotion) ==
    \A i \in 1..Len(Blended(c)) :
       Distance(Blended(c)[i], BlendTargets(emotion)[i]) < BlendTolerance

\* C20: on every non-paused render tick each blended value (the channels of
\* the base, tip, sun, weather and halo colours, the weather speed, sway and
\* size, the halo opacity) gets no farther from the target of the committed
\* emotion and does not pass it; and once the emotion is held, unless the
\* canvas stays paused, every blended value eventually stays within the
\* tolerance of its target.
C20_BlendConverges ==
    /\ [][ (canvas'.frameId # canvas.frameId /\ ~canvas.isPaused) =>
              \A i \in 1..Len(Blended(canvas)) :
                 Approaches(Blended(canvas)[i], Blended(canvas')[i],
                            BlendTargets(systemState.emotion)[i]) ]_vars
    /\ (<>[](~canvas.isPaused)) => <>[]Settled(canvas, systemState.emotion)

\* C20 witness: the emotion became HAPPY during the first ticks, was held,
\* and the halo opacity has climbed from 0 to within the tolerance of 0.8
C20_Witness ==
    /\ systemState.emotion = "HAPPY"
    /\ ~canvas.isPaused
    /\ canvas.frameId > EarlyTicks
    /\ Settled(canvas, "HAPPY")
    /\ canvas.haloOpacity > Scale(Unit, 7, 10)

-----------------------------------------------------------------------------
(* The walk to the edge of the world: a hand is seen before the first       *)
(* WalkLead render ticks and held; the canvas keeps animating.  The player  *)
(* needs more than 3200 ticks from the origin to the edge.                  *)

WalkLead == 1        \* render ticks during which the session's events occur
WalkTicks == 3300    \* calls of animate in one behaviour of the walk

\* a fist in one image corner (handPosition (-1, 1)), an open hand in the
\* opposite one (handPosition (1, -1))
WalkHands == {Hand(Pt(Unit, 0), 500), Hand(Pt(0, Unit), 2000)}

NextWalk ==
    \/ canvas.frameId < WalkLead /\ TrackingStartSequence
    \/ canvas.frameId < WalkLead /\ TrackingCameraFrame(RenderFrames)
    \/ canvas.frameId < WalkLead /\ \E h \in WalkHands : HandResults(<<h>>)
    \/ canvas.frameId < WalkLead /\ TrackingFaceResults(NoFace)
    \/ (canvas.frameId < WalkLead \/ lastResult.hand = "hand") /\ Animate(WalkTicks)

SpecWalk == TrackingInit /\ [][NextWalk]_vars

\* C21: the player position stays within WORLD_EXTENT - 100 on both axes;
\* on every non-paused render tick the new velocity is 0.9 of the previous
\* one plus 0.1 of the target, and the position advances by 0.6 of that
\* smoothed velocity, cut off at the bounds.
C21_PositionBoundedVelocitySmoothed ==
    /\ [](/\ canvas.position.x <= 4900 * Unit /\ canvas.position.x >= -4900 * Unit
          /\ canvas.position.z <= 4900 * Unit /\ canvas.position.z >= -4900 * Unit)
    /\ [][ (canvas'.frameId # canvas.frameId /\ ~canvas.isPaused) =>
              LET target == TargetVelocity(systemState)
                  v == canvas.velocity
                  w == canvas'.velocity
                  Cut(a) == IF a > 4900 * Unit THEN 4900 * Unit
                            ELSE IF a < -4900 * Unit THEN -4900 * Unit ELSE a
              IN /\ w.x = Scale(v.x, 9, 10) + Scale(target.x, 1, 10)
                 /\ w.y = Scale(v.y, 9, 10) + Scale(target.y, 1, 10)
                 /\ canvas'.position.x = Cut(canvas.position.x + Scale(w.x, 6, 10))
                 /\ canvas'.position.z = Cut(canvas.position.z + Scale(w.y, 6, 10)) ]_vars

\* C21 witness: the player has walked from the origin into a corner of the
\* world and is held at the bound on both axes while the velocity still
\* points outward
C21_Witness ==
    /\ Distance(canvas.position.x, 0) = 4900 * Unit
    /\ Distance(canvas.position.z, 0) = 4900 * Unit
    /\ Distance(canvas.velocity.x, 0) > 2 * Unit
    /\ canvas.skipped = 0

-----------------------------------------------------------------------------
(* Steering: hands on the edge of the deadzone and in the image corners,    *)
(* open and closed.                                                         *)

\* palm centres: handPosition (0.15, 0) on the edge of the deadzone, (-1, 1)
\* and (1, -1) in the corners
SteerPalms == {Pt(4250, 5000), Pt(Unit, 0), Pt(0, Unit)}

SteerHands == {Hand(p, r) : p \in SteerPalms, r \in {2000, 500}}

NextSteer ==
    \/ TrackingStartSequence
    \/ TogglePause
    \/ TrackingCameraFrame(RenderFrames)
    \/ \E h \in SteerHands : HandResults(<<h>>)
    \/ TrackingFaceResults(NoFace)
    \/ Animate(RenderTicks)

SpecSteer == TrackingInit /\ [][NextSteer]_vars

\* the targets as the claim states them
SteerMagnitude(state) == Hypot(state.handPosition.x, state.handPosition.y)

SteerForward(state) ==
    IF SteerMagnitude(state) <= 1500 THEN 0
    ELSE IF state.isFist THEN (SteerMagnitude(state) - 1500) * 2
         ELSE -((SteerMagnitude(state) - 1500) * 2)

SteerTurn(state) ==
    IF SteerMagnitude(state) <= 1500 THEN 0
    ELSE TruncDiv(state.handPosition.x * 25, 10)

\* C22: on a non-paused render tick the velocity is blended toward these
\* targets: both 0 when the hand vector magnitude is at or below 0.15,
\* whatever isFist is; above it the forward speed (magnitude - 0.15) * 2.0,
\* toward +Z with a fist and -Z without, and the turn rate
\* handPosition.x * 2.5.
C22_DeadzoneAndDirection ==
    [][ (canvas'.frameId # canvas.frameId /\ ~canvas.isPaused) =>
           /\ canvas'.velocity.x =
                 TruncDiv(canvas.velocity.x * 9, 10)
                    + TruncDiv(SteerTurn(systemState), 10)
           /\ canvas'.velocity.y =
                 TruncDiv(canvas.velocity.y * 9, 10)
                    + TruncDiv(SteerForward(systemState), 10) ]_vars

\* C22 witness: an open hand above the deadzone has driven the player
\* toward -Z and turned it toward +X
C22_Witness ==
    /\ SteerMagnitude(systemState) > 1500
    /\ ~systemState.isFist
    /\ ~canvas.isPaused
    /\ canvas.velocity.y < 0
    /\ canvas.velocity.x > 0
    /\ canvas.position.z < 0

-----------------------------------------------------------------------------
(* Claims about the UI snapshot *)

\* C23 (as stated): the snapshot handed to the overlay is a copy taken at
\* the UI tick: at every moment, before the first UI tick included, what
\* the overlay is handed changes only by a UI tick, never by a write of a
\* tracking callback or of the audio tick to the shared state; and the
\* snapshot is refreshed only while the status is RUNNING.
C23_SnapshotIsACopy ==
    [][ /\ OverlayState' # OverlayState => uiState' # uiState
        /\ uiState' # uiState => status = "RUNNING" ]_vars

-----------------------------------------------------------------------------
(* Claims about the classification of a face frame *)

\* the candidate of the last face frame: src/App.tsx feeds it to the
\* debounce, src/types.ts publishes it as the emotion
LastCandidate ==
    IF IsTrackingVariant THEN log[Len(log)].emotion ELSE log[Len(log)].cand

\* the smoothed curvature the last face frame classified
LastCurvature ==
    IF IsTrackingVariant THEN systemState.mouthCurvature ELSE Fin(smoothCurvature)

\* C24 (as stated): the candidate of each face frame is HAPPY exactly when
\* the smoothed curvature is below -0.02, SAD exactly when it is above 0.05
\* and CALM otherwise, -0.02 and 0.05 themselves included; so a smile
\* (negative curvature) is never classified SAD.
C24_CandidateByThresholds ==
    log # <<>> =>
       /\ LastCandidate = "HAPPY" <=> Below(LastCurvature, -200)
       /\ LastCandidate = "SAD" <=> Above(LastCurvature, 500)
       /\ LastCandidate = "CALM" <=>
             (~Below(LastCurvature, -200) /\ ~Above(LastCurvature, 500))

-----------------------------------------------------------------------------
(* Claims about the openness of the mouth (src/App.tsx) *)

\* C25 (as stated): the raw openness fed to the smoother on each face frame
\* is mouthHeight / mouthWidth limited to [0, 1], and 0 when mouthWidth is
\* 0; so the internal smoothed openness never exceeds 1, and once the
\* published mouthOpenness has reached 1 it falls below 1 on the first
\* frame whose ratio is below 1.
C25_RawOpennessClamped ==
    /\ [](log # <<>> =>
             /\ log[Len(log)].rawRatio >= 0
             /\ log[Len(log)].rawRatio <= Unit
             /\ log[Len(log)].mouthW = 0 => log[Len(log)].rawRatio = 0)
    /\ [](smoothMouth <= Unit)
    /\ [][ (Len(log') > Len(log) /\ systemState.mouthOpenness = Unit
              /\ log'[Len(log')].rawRatio < Unit)
           => systemState'.mouthOpenness < Unit ]_vars

-----------------------------------------------------------------------------
(* Claims about the smoothing of a constant reading *)

\* every face frame so far had the same raw curvature / the same raw openness
ConstantCurvature(l) == \A i \in 1..Len(l) : l[i].rawCurvature = l[1].rawCurvature
ConstantOpenness(l) == \A i \in 1..Len(l) : l[i].rawRatio = l[1].rawRatio

\* the step from v to w moves toward c without passing it, and the distance
\* to c is multiplied by percent / 100 (up to the rounding of two
\* truncations)
ShrinksBy(v, w, c, percent) ==
    /\ Approaches(v, w, c)
    /\ Distance(w, c) >= Scale(Distance(v, c), percent, 100)
    /\ Distance(w, c) <= Scale(Distance(v, c), percent, 100) + 2

\* the step of a face frame of either variant, with the factor given
SmoothedShrinksBy(appPercent, trackingPercent) ==
    Len(log') > Len(log) =>
           IF IsTrackingVariant
              THEN (ConstantCurvature(log') /\ IsFinite(log'[1].rawCurvature)) =>
                      ShrinksBy(systemState.mouthCurvature.v,
                                systemState'.mouthCurvature.v,
                                log'[1].rawCurvature.v, trackingPercent)
              ELSE /\ ConstantCurvature(log') =>
                         ShrinksBy(smoothCurvature, smoothCurvature',
                                   log'[1].rawCurvature, appPercent)
                   /\ ConstantOpenness(log') =>
                         ShrinksBy(smoothMouth, smoothMouth',
                                   log'[1].rawRatio, appPercent)

\* C26 (as stated): with the same raw value c on every face frame the
\* smoothed value moves toward c, never passes it, and its distance to c
\* is multiplied by 0.85 on every frame.
C26_ShrinksBy85 == [][SmoothedShrinksBy(85, 85)]_vars

\* C26 (amended): with the same raw value c on every face frame the
\* smoothed value moves toward c, never passes it, and its distance to c
\* is multiplied on every frame by 0.85 in src/App.tsx and by 0.9 in
\* src/types.ts.
C26_ShrinksByFactor == [][SmoothedShrinksBy(85, 90)]_vars

\* C26 witness: three frames of the same smile in src/types.ts have taken
\* the smoothed curvature from 0 to 0.0542, short of the raw 0.2
C26_Witness ==
    /\ IsTrackingVariant
    /\ Len(log) >= 3
    /\ ConstantCurvature(log)
    /\ log[1].rawCurvature = Fin(2000)
    /\ systemState.mouthCurvature.v > 500
    /\ systemState.mouthCurvature.v < 2000

-----------------------------------------------------------------------------
(* The wind of a loud session: the audio tick of src/types.ts reads all-255 *)
(* snapshots while the canvas renders a few ticks.                          *)

NextWind ==
    \/ TrackingStartSequence
    \/ TogglePause
    \/ TrackingAudioTick(Loud, LoudTicks)
    \/ Animate(RenderTicks)

SpecWind == TrackingInit /\ [][NextWind]_vars

\* C27: on every non-paused render tick the wind strength becomes
\* 0.5 + soundAmplitude * 5.0 of the shared state read in that tick, and the
\* wind strength is always within [0.5, 5.5].
C27_WindFromAmplitude ==
    /\ [](canvas.windStrength >= 5000 /\ canvas.windStrength <= 55000)
    /\ [][ (canvas'.frameId # canvas.frameId /\ ~canvas.isPaused) =>
              canvas'.windStrength = 5000 + systemState.soundAmplitude * 5 ]_vars

\* C27 witness: a render tick has read a sound amplitude above 0.9 and set
\* the wind strength above 5.0
C27_Witness ==
    /\ canvas.windStrength > 5 * Unit
    /\ canvas.time > 0
    /\ systemState.soundAmplitude > 9000

-----------------------------------------------------------------------------
(* Claims about the vision path and the pause *)

\* the fields of the shared record the tracking callbacks own
VisionFields(state) ==
    IF IsTrackingVariant
       THEN <<state.emotion, state.mouthCurvature, state.handPosition, state.isFist>>
       ELSE <<state.emotion, state.mouthOpenness>>

\* C28 (as stated): while the status is PAUSED the vision-owned fields of
\* the shared state do not change, and a camera frame is sent to the
\* trackers only while the status is RUNNING.
C28_PausedVisionFrozen ==
    /\ [][ status = "PAUSED" =>
              VisionFields(systemState') = VisionFields(systemState) ]_vars
    /\ [][ (inflight = "none" /\ inflight' # "none") => status = "RUNNING" ]_vars

\* C28 (amended): a camera frame is sent to the trackers only while the
\* status copied into statusRef is RUNNING, so not before the status first
\* becomes RUNNING; the vision-owned fields change only by the results of a
\* frame that was sent, and while the status is PAUSED they change at most
\* by the results of the frame that was in flight when the pause took
\* effect.
C28_PausedVisionSettles ==
    /\ [][ (inflight = "none" /\ inflight' # "none") => statusRef = "RUNNING" ]_vars
    /\ [][ VisionFields(systemState') # VisionFields(systemState) =>
              inflight # "none" ]_vars
    /\ [][ (status = "PAUSED" /\ statusRef = "PAUSED" /\ inflight = "none") =>
              /\ VisionFields(systemState') = VisionFields(systemState)
              /\ (status' = "PAUSED" => inflight' = "none") ]_vars

\* C28 witness: the session is paused, the pause has taken effect, and the
\* results of a frame sent before the pause are still to come
C28_Witness ==
    /\ status = "PAUSED"
    /\ statusRef = "PAUSED"
    /\ inflight # "none"
    /\ log # <<>>

-----------------------------------------------------------------------------
(* Claims about the status *)

StatusTransitions ==
    {<<"IDLE", "LOADING">>, <<"LOADING", "RUNNING">>, <<"LOADING", "ERROR">>,
     <<"RUNNING", "PAUSED">>, <<"PAUSED", "RUNNING">>}

\* C29: the status changes only along IDLE to LOADING, LOADING to RUNNING or
\* ERROR, RUNNING to PAUSED and PAUSED to RUNNING; the pause toggle changes
\* nothing in IDLE, LOADING and ERROR; and the status is RUNNING or PAUSED
\* only after the audio initialisation, the tracker initialisation and the
\* camera start of the start sequence have completed.
C29_StatusTransitions ==
    /\ [][ status' # status => <<status, status'>> \in StatusTransitions ]_vars
    /\ [](status \in {"IDLE", "LOADING", "ERROR"} => ~ENABLED TogglePause)
    /\ [](status \in {"RUNNING", "PAUSED"} =>
             (audioReady /\ faceMeshReady /\ cameraOn))

\* C29 witness: a start that succeeded, whose timers are running and whose
\* face frames were processed, has just been paused
C29_Witness ==
    /\ status = "PAUSED"
    /\ statusRef = "RUNNING"
    /\ intervals.ui > 0
    /\ audioReady /\ faceMeshReady /\ cameraOn
    /\ log # <<>>

-----------------------------------------------------------------------------
(* Claims about the debounce counter (src/App.tsx) *)

\* C30: after every face frame the streak counter is in 0..5; it is 0 when
\* the candidate of the frame equals the committed emotion and right after
\* a commit; and the published emotion equals the committed emotion.
C30_StreakCounterRange ==
    log # <<>> =>
       LET last == log[Len(log)]
       IN /\ emotionTimer \in 0..5
          /\ last.cand = last.stableBefore => emotionTimer = 0
          /\ last.cand = stableEmotion => emotionTimer = 0
          /\ stableEmotion # last.stableBefore => emotionTimer = 0
          /\ systemState.emotion = stableEmotion

\* C30 witness: the sixth frame of a streak has just committed a new
\* emotion; the counter, which stood at 5, is 0 again
C30_Witness ==
    /\ Len(log) >= 6
    /\ log[Len(log)].timerBefore = 5
    /\ log[Len(log)].stableBefore # stableEmotion
    /\ emotionTimer = 0
    /\ systemState.emotion = stableEmotion

====
